---- MODULE Spec2Model ----
(***************************************************************************)
(* The Add/Del orchestration of the CNI wrapper plugin                     *)
(* (src/src/cni-wrapper-plugin/main.go).                                   *)
(*                                                                         *)
(* Every CNI invocation is one OS process running cmdAdd or cmdDel.  An    *)
(* invocation is modelled as a record inv[p] holding the locals of the     *)
(* handler and its position pc; one action per statement group that makes  *)
(* one collaborator call.  The collaborators (metadata store, NetOut and   *)
(* NetIn chain managers, masquerade toggle, delegate, policy agent) live   *)
(* outside main.go: their effect on the host state is modelled from their  *)
(* contracts, their success or failure is a nondeterministic input.        *)
(***************************************************************************)
EXTENDS Integers, Sequences, FiniteSets, TLC

\* ------------------------------------------------------------------ bounds
\* number of invocation slots (CNI processes alive at the same time)
NumProcs ==
  2

\* number of invocations started in one behaviour
MaxCalls ==
  2

\* longest cfg.RuntimeConfig.PortMappings list
MaxMappings ==
  2

\* longest cfg.DNSServers list of the specification that ranges over DNS lists
MaxDNSServers ==
  3

\* longest cfg.RuntimeConfig.PortMappings list of two racing invocations
MaxRaceMappings ==
  1

\* ------------------------------------------------------------ input domains
Procs == 1..NumProcs

\* args.ContainerID; the empty handle is a possible input
Handles == {"", "c1", "c2"}

\* ChainNamer{MaxLength: 28}: the longest chain name
MaxLength ==
  28

\* two handles longer than a chain name that differ in their last character
LongHandles == {"xxxxxxxxxxxxxxxxxxxxxxxxxxxxxa", "xxxxxxxxxxxxxxxxxxxxxxxxxxxxxb"}

\* every handle of the model
AllHandles == Handles \cup LongHandles

\* the characters of a handle
HandleText(handle) ==
  CASE handle = "" -> <<>>
    [] handle = "c1" -> <<"c", "1">>
    [] handle = "c2" -> <<"c", "2">>
    [] handle = "xxxxxxxxxxxxxxxxxxxxxxxxxxxxxa" ->
         [i \in 1..(MaxLength + 2) |-> IF i = MaxLength + 2 THEN "a" ELSE "x"]
    [] handle = "xxxxxxxxxxxxxxxxxxxxxxxxxxxxxb" ->
         [i \in 1..(MaxLength + 2) |-> IF i = MaxLength + 2 THEN "b" ELSE "x"]

\* addresses the delegate can assign
IPs == {"10.255.0.2", "10.255.0.3"}

\* store[h] when the store holds no record for h
NoRecord == "<none>"

\* one entry of cfg.RuntimeConfig.PortMappings
Mappings ==
  { [HostPort |-> 8080, ContainerPort |-> 80],
    [HostPort |-> 0,    ContainerPort |-> 80],
    [HostPort |-> -1,   ContainerPort |-> 80] }

RECURSIVE SeqsUpTo(_, _)
SeqsUpTo(S, n) ==
  IF n = 0 THEN { <<>> }
  ELSE LET shorter == SeqsUpTo(S, n - 1)
       IN  shorter \cup { Append(s, x) : s \in { t \in shorter : Len(t) = n - 1 }, x \in S }

PortMappingLists == SeqsUpTo(Mappings, MaxMappings)

\* cfg.DNSServers: dotted quads as tuples of numbers; a tuple that is not four
\* octets stands for a string net.ParseIP rejects
DNSServerLists ==
  { << <<8, 8, 8, 8>>, <<169, 254, 0, 2>> >>,
    << <<169, 254, 0, 2>>, <<256, 1, 1>> >> }

\* one entry of cfg.DNSServers: two link-local addresses, one that is not
\* link-local, and one string that is no IP address
DNSEntries == { <<169, 254, 0, 2>>, <<169, 254, 0, 3>>, <<8, 8, 8, 8>>, <<256, 1, 1>> }

AllDNSServerLists == SeqsUpTo(DNSEntries, MaxDNSServers)

\* the DNS nameservers of the delegate's own result
DelegateNameservers == << <<10, 0, 0, 1>> >>

\* what the delegate plugin hands back: the list of assigned addresses and
\* its DNS settings
DelegateResults ==
  { [IPs |-> <<>>, Nameservers |-> DelegateNameservers] }
    \cup { [IPs |-> <<ip>>, Nameservers |-> DelegateNameservers] : ip \in IPs }

\* outcome of the GET to the policy agent: a transport error or a status code
PolicyPollOutcomes == {"transport error", "200", "204", "500"}

\* ------------------------------------------------------------------- state
VARIABLES
  inv,       \* inv[p]: locals and position of invocation slot p; inv[p].inIPT
             \* while the invocation is inside an operation on iptables
  store,     \* metadata store: container handle -> stored IP, or NoRecord
  netin,     \* ingress chain per handle: [exists, rules]
  netout,    \* egress chain per handle: "absent", "init", "partial", "rules"
  masq,      \* container IPs that have a masquerade exemption
  ncalls,    \* invocations started so far
  last,      \* the Add that exited last, if it succeeded on a clean handle
  masqOwner, \* per handle: the IP of its Add that got through AddIPMasq, ""
             \* once a Del for the handle has returned success (or before any
             \* such Add)
  cfgDNSServers \* cfg.DNSServers of the wrapper config the host hands to
             \* every invocation

vars == <<inv, store, netin, netout, masq, ncalls, last, masqOwner, cfgDNSServers>>

shared == <<store, netin, netout, masq>>

NoCalls == <<>>

NoLast == [good |-> FALSE, ContainerID |-> "", containerIP |-> ""]

Idle ==
  [ pc |-> "idle", op |-> "none", ContainerID |-> "", containerIP |-> "",
    result |-> [IPs |-> <<>>, Nameservers |-> <<>>], DNSServers |-> <<>>, localDNSServers |-> <<>>,
    portMappings |-> <<>>, idx |-> 1, applied |-> <<>>,
    container |-> [IP |-> ""], calls |-> NoCalls, ret |-> "none",
    printed |-> [IPs |-> <<>>, Nameservers |-> <<>>],
    clean |-> FALSE, prev |-> NoLast, inIPT |-> FALSE ]

\* one collaborator call as the handler saw it
Call(name, ok, arg) == [call |-> name, ok |-> ok, arg |-> arg]

Logged(rec, name, ok, arg) == [rec EXCEPT !.calls = Append(@, Call(name, ok, arg))]

\* the handler returns r; an operation on iptables it was in has ended
Returned(rec, r) == [rec EXCEPT !.pc = "done", !.ret = r, !.inIPT = FALSE]

\* the handler goes on to pc; an operation on iptables it was in has ended
At(rec, pc) == [rec EXCEPT !.pc = pc, !.inIPT = FALSE]

Set(p, rec) == inv' = [inv EXCEPT ![p] = rec]

\* ---------------------------------------------- collaborator contracts
\* datastore.Store.Add: the record is written
StoreAdd(s, handle, ip) == [s EXCEPT ![handle] = ip]

\* datastore.Store.Add fails on a duplicate handle (and may fail on I/O)
StoreAddCanSucceed(s, handle) == s[handle] = NoRecord

\* datastore.Store.Delete: the record that existed, zero-valued if absent
StoreLookup(s, handle) == [IP |-> IF s[handle] = NoRecord THEN "" ELSE s[handle]]

StoreDelete(s, handle) == [s EXCEPT ![handle] = NoRecord]

\* datastore.Store.Delete reports an absent handle as an error
StoreDeleteCanSucceed(s, handle) == s[handle] # NoRecord

NoChain == [exists |-> FALSE, rules |-> <<>>]

\* legacynet.ChainNamer: the chain name of a handle is derived from the
\* handle and cut to MaxLength characters (the role tag, which takes some of
\* them, is left out: ingress and egress chains are kept apart in netin and
\* netout)
ChainName(handle) ==
  LET text == HandleText(handle)
  IN  IF Len(text) > MaxLength THEN SubSeq(text, 1, MaxLength) ELSE text

\* the chains are kept per chain name; ChainOf[h] stands for the name of h:
\* the one handle picked among those whose chain name is that of h
ChainOf == [h \in AllHandles |-> CHOOSE g \in AllHandles : ChainName(g) = ChainName(h)]

\* legacynet.NetIn.Initialize: idempotent creation of the ingress chain
NetInInitialize(c, handle) ==
  IF c[ChainOf[handle]].exists THEN c ELSE [c EXCEPT ![ChainOf[handle]] = [exists |-> TRUE, rules |-> <<>>]]

\* legacynet.NetIn.AddRule: one mapping appended to the ingress chain
NetInAddRule(c, handle, m) == [c EXCEPT ![ChainOf[handle]].rules = Append(@, m)]

\* a rule can only be appended to a chain that exists
NetInAddRuleCanSucceed(c, handle) == c[ChainOf[handle]].exists

\* legacynet.NetIn.Cleanup: chain and rules removed, no-op when absent
NetInCleanup(c, handle) == [c EXCEPT ![ChainOf[handle]] = NoChain]

\* legacynet.NetOut.Initialize: idempotent creation of the egress chain
NetOutInitialize(c, handle) ==
  IF c[ChainOf[handle]] = "absent" THEN [c EXCEPT ![ChainOf[handle]] = "init"] ELSE c

\* legacynet.NetOut.BulkInsertRules: the whole rule set is in the chain
NetOutBulkInsertRules(c, handle) == [c EXCEPT ![ChainOf[handle]] = "rules"]

\* a failed bulk insert leaves the chain as it was or with a prefix of the rules
NetOutBulkInsertFailed(c, handle) ==
  IF c[ChainOf[handle]] = "init" THEN { c, [c EXCEPT ![ChainOf[handle]] = "partial"] } ELSE { c }

NetOutBulkInsertCanSucceed(c, handle) == c[ChainOf[handle]] # "absent"

\* legacynet.NetOut.Cleanup: chain and rules removed, no-op when absent
NetOutCleanup(c, handle) == [c EXCEPT ![ChainOf[handle]] = "absent"]

\* lib.PluginController.AddIPMasq / DelIPMasq
AddIPMasq(m, ip) == m \cup {ip}

DelIPMasq(m, ip) == m \ {ip}

\* --------------------------------------------------------------- Init
Init ==
  /\ inv = [p \in Procs |-> Idle]
  /\ store = [h \in Handles |-> NoRecord]
  /\ netin = [h \in Handles |-> NoChain]
  /\ netout = [h \in Handles |-> "absent"]
  /\ masq = {}
  /\ ncalls = 0
  /\ last = NoLast
  /\ masqOwner = [h \in Handles |-> ""]
  /\ cfgDNSServers \in DNSServerLists

\* no record and no chain for the handle
HandleClean(handle) ==
  /\ store[handle] = NoRecord
  /\ ~netin[ChainOf[handle]].exists
  /\ netout[ChainOf[handle]] = "absent"

\* skel.PluginMain dispatches one ADD or DEL to cmdAdd / cmdDel; the new
\* process takes the lowest free slot
Start(p, op, handle) ==
  /\ inv[p].pc = "idle"
  /\ \A q \in Procs : q < p => inv[q].pc # "idle"
  /\ ncalls < MaxCalls
  /\ ncalls' = ncalls + 1
  /\ Set(p, [Idle EXCEPT !.pc = "LoadWrapperConfig", !.op = op, !.ContainerID = handle,
                         !.clean = HandleClean(handle), !.prev = last])
  /\ UNCHANGED <<shared, last, masqOwner, cfgDNSServers>>

\* the invocations run one after the other
StartSeq(p) ==
  /\ \A q \in Procs : inv[q].pc = "idle"
  /\ \E op \in {"ADD", "DEL"}, handle \in Handles : Start(p, op, handle)

\* the handler has returned (or panicked) and the process exits
Exit(p) ==
  /\ inv[p].pc = "done"
  /\ last' = IF inv[p].op = "ADD" /\ inv[p].ret = "ok" /\ inv[p].clean
              THEN [good |-> TRUE, ContainerID |-> inv[p].ContainerID,
                    containerIP |-> inv[p].containerIP]
              ELSE NoLast
  /\ masqOwner' = IF inv[p].op = "DEL" /\ inv[p].ret = "ok" THEN [masqOwner EXCEPT ![inv[p].ContainerID] = ""]
                  ELSE masqOwner
  /\ Set(p, Idle)
  /\ UNCHANGED <<shared, ncalls, cfgDNSServers>>

\* ----------------------------------------------------- iptables access
\* the positions of cmdAdd and cmdDel whose call works on iptables
IPTablesPcs ==
  [ ADD |-> {"StoreAddCleanup", "NetOutInitialize", "NetInInitialize", "PortMappings",
             "BulkInsertRules", "AddIPMasq"},
    DEL |-> {"NetInCleanup", "NetOutCleanup", "DelIPMasq"},
    none |-> {} ]

\* the next call of the invocation works on iptables; in the port-mapping
\* loop that is AddRule, which an entry with a host port <= 0 never gets to
NeedsIPTables(rec) ==
  /\ rec.pc \in IPTablesPcs[rec.op]
  /\ rec.pc = "PortMappings" => rec.portMappings[rec.idx].HostPort > 0

\* mutant: the ingress chain manager is built with the bare iptables handle
ThroughLockedIPTables_NetInBare(rec) == rec.pc \notin {"NetInInitialize", "PortMappings", "NetInCleanup"}

\* NetOut, NetIn and the plugin controller are all built with
\* pluginController.IPTables, the one LockedIPTables of newPluginController
ThroughLockedIPTables(rec) == TRUE

\* rules.LockedIPTables holds the file lock of cfg.IPTablesLockFile for the
\* time of one operation: some invocation is inside an operation it entered
\* through the locked handle
IPTablesLocked == \E q \in Procs : inv[q].inIPT /\ ThroughLockedIPTables(inv[q])

\* an invocation enters its next operation on iptables; through the locked
\* handle it first takes the file lock, which it gets only when that is free
IPTablesEnter(p) ==
  /\ NeedsIPTables(inv[p]) /\ ~inv[p].inIPT
  /\ ThroughLockedIPTables(inv[p]) => ~IPTablesLocked
  /\ Set(p, [inv[p] EXCEPT !.inIPT = TRUE])
  /\ UNCHANGED <<shared, ncalls, last, masqOwner, cfgDNSServers>>

\* the invocation can make the call of its position: it is inside the
\* operation when the call works on iptables
Ready(p) == NeedsIPTables(inv[p]) => inv[p].inIPT

\* ------------------------------------------------------------- cmdAdd
InAdd(p, pc) == inv[p].op = "ADD" /\ inv[p].pc = pc /\ Ready(p)

\* cfg, err := lib.LoadWrapperConfig(args.StdinData)
cmdAdd_LoadWrapperConfig(p) ==
  /\ InAdd(p, "LoadWrapperConfig")
  /\ \E ok \in BOOLEAN :
       LET rec == Logged(inv[p], "LoadWrapperConfig", ok, "")
       IN  Set(p, IF ok THEN At(rec, "newPluginController") ELSE Returned(rec, "config"))
  /\ UNCHANGED <<shared, ncalls, last, masqOwner, cfgDNSServers>>

\* pluginController, err := newPluginController(cfg.IPTablesLockFile)
cmdAdd_newPluginController(p) ==
  /\ InAdd(p, "newPluginController")
  /\ \E ok \in BOOLEAN :
       LET rec == Logged(inv[p], "newPluginController", ok, "")
       IN  Set(p, IF ok THEN At(rec, "DelegateAdd") ELSE Returned(rec, "iptables"))
  /\ UNCHANGED <<shared, ncalls, last, masqOwner, cfgDNSServers>>

\* mutant: the delegate's error is dropped and Add goes on
cmdAdd_DelegateAdd_ErrorIgnored(p) ==
  /\ InAdd(p, "DelegateAdd")
  /\ \/ \E r \in DelegateResults :
          Set(p, At([Logged(inv[p], "DelegateAdd", FALSE, "") EXCEPT !.result = r],
                    "NewResultFromResult"))
     \/ \E r \in DelegateResults :
          Set(p, At([Logged(inv[p], "DelegateAdd", TRUE, "") EXCEPT !.result = r],
                    "NewResultFromResult"))
  /\ UNCHANGED <<shared, ncalls, last, masqOwner, cfgDNSServers>>

\* result, err := pluginController.DelegateAdd(cfg.Delegate)
cmdAdd_DelegateAdd(p) ==
  /\ InAdd(p, "DelegateAdd")
  /\ \/ Set(p, Returned(Logged(inv[p], "DelegateAdd", FALSE, ""), "delegate call"))
     \/ \E r \in DelegateResults :
          Set(p, At([Logged(inv[p], "DelegateAdd", TRUE, "") EXCEPT !.result = r],
                    "NewResultFromResult"))
  /\ UNCHANGED <<shared, ncalls, last, masqOwner, cfgDNSServers>>

\* result030, err := current.NewResultFromResult(result)
\* containerIP := result030.IPs[0].Address.IP   (index out of range panics)
cmdAdd_NewResultFromResult(p) ==
  /\ InAdd(p, "NewResultFromResult")
  /\ \E ok \in BOOLEAN :
       LET rec == Logged(inv[p], "NewResultFromResult", ok, "")
       IN  Set(p, IF ~ok THEN Returned(rec, "converting result from delegate plugin")
                  ELSE IF Len(rec.result.IPs) = 0 THEN Returned(rec, "panic")
                  ELSE At([rec EXCEPT !.containerIP = rec.result.IPs[1],
                                      !.clean = @ /\ rec.result.IPs[1] \notin masq],
                          "Unmarshal"))
  /\ UNCHANGED <<shared, ncalls, last, masqOwner, cfgDNSServers>>

\* json.Unmarshal(args.StdinData, &cniAddData)
cmdAdd_Unmarshal(p) ==
  /\ InAdd(p, "Unmarshal")
  /\ \E ok \in BOOLEAN :
       LET rec == Logged(inv[p], "Unmarshal", ok, "")
       IN  Set(p, IF ok THEN At(rec, "StoreAdd") ELSE Returned(rec, "unmarshal"))
  /\ UNCHANGED <<shared, ncalls, last, masqOwner, cfgDNSServers>>

\* store.Add(args.ContainerID, containerIP.String(), cniAddData.Metadata)
cmdAdd_StoreAdd(p) ==
  /\ InAdd(p, "StoreAdd")
  /\ \/ /\ StoreAddCanSucceed(store, inv[p].ContainerID)
        /\ store' = StoreAdd(store, inv[p].ContainerID, inv[p].containerIP)
        /\ Set(p, At(Logged(inv[p], "StoreAdd", TRUE, inv[p].containerIP), "PolicyPoll"))
     \/ /\ store' = store
        /\ Set(p, At(Logged(inv[p], "StoreAdd", FALSE, inv[p].containerIP), "StoreAddCleanup"))
  /\ UNCHANGED <<netin, netout, masq, ncalls, last, masqOwner, cfgDNSServers>>

\* mutant: the compensation is given the container handle, not the IP
cmdAdd_StoreAddCleanup_WrongArg(p) ==
  /\ InAdd(p, "StoreAddCleanup")
  /\ \E ok \in BOOLEAN :
       /\ masq' = IF ok THEN DelIPMasq(masq, inv[p].ContainerID) ELSE masq
       /\ Set(p, Returned(Logged(inv[p], "DelIPMasq", ok, inv[p].ContainerID), "store add"))
  /\ UNCHANGED <<store, netin, netout, ncalls, last, masqOwner, cfgDNSServers>>

\* mutant: a failed compensation replaces the store error
cmdAdd_StoreAddCleanup_ErrorReplaced(p) ==
  /\ InAdd(p, "StoreAddCleanup")
  /\ \E ok \in BOOLEAN :
       /\ masq' = IF ok THEN DelIPMasq(masq, inv[p].containerIP) ELSE masq
       /\ Set(p, Returned(Logged(inv[p], "DelIPMasq", ok, inv[p].containerIP),
                          IF ok THEN "store add" ELSE "removing IP masq"))
  /\ UNCHANGED <<store, netin, netout, ncalls, last, masqOwner, cfgDNSServers>>

\* the store-failure path: DelIPMasq, its error only logged, return storeErr
cmdAdd_StoreAddCleanup(p) ==
  /\ InAdd(p, "StoreAddCleanup")
  /\ \E ok \in BOOLEAN :
       /\ masq' = IF ok THEN DelIPMasq(masq, inv[p].containerIP) ELSE masq
       /\ Set(p, Returned(Logged(inv[p], "DelIPMasq", ok, inv[p].containerIP), "store add"))
  /\ UNCHANGED <<store, netin, netout, ncalls, last, masqOwner, cfgDNSServers>>

\* mutant: every 2xx status is accepted
cmdAdd_PolicyPoll_Any2xx(p) ==
  /\ InAdd(p, "PolicyPoll")
  /\ \E outcome \in PolicyPollOutcomes :
       LET rec == Logged(inv[p], "PolicyPoll", outcome \in {"200", "204"}, outcome)
       IN  Set(p, IF outcome = "transport error" THEN Returned(rec, "policy poll")
                  ELSE IF outcome \notin {"200", "204"} THEN Returned(rec, "vpa response code")
                  ELSE At(rec, "getLocalDNSServers"))
  /\ UNCHANGED <<shared, ncalls, last, masqOwner, cfgDNSServers>>

\* http.DefaultClient.Get(".../force-policy-poll-cycle"); StatusOK required
cmdAdd_PolicyPoll(p) ==
  /\ InAdd(p, "PolicyPoll")
  /\ \E outcome \in PolicyPollOutcomes :
       LET rec == Logged(inv[p], "PolicyPoll", outcome = "200", outcome)
       IN  Set(p, IF outcome = "transport error" THEN Returned(rec, "policy poll")
                  ELSE IF outcome # "200" THEN Returned(rec, "vpa response code")
                  ELSE At(rec, "getLocalDNSServers"))
  /\ UNCHANGED <<shared, ncalls, last, masqOwner, cfgDNSServers>>

\* net.ParseIP on a dotted quad
ParseIP(entry) ==
  Len(entry) = 4 /\ \A i \in 1..Len(entry) : entry[i] \in 0..255

\* net.IP.IsLinkLocalUnicast: 169.254.0.0/16
IsLinkLocalUnicast(entry) == entry[1] = 169 /\ entry[2] = 254

\* the loop of getLocalDNSServers from entry i on, acc the servers kept so far
RECURSIVE LocalDNSFrom(_, _, _)
LocalDNSFrom(allDNSServers, i, acc) ==
  IF i > Len(allDNSServers) THEN [err |-> FALSE, servers |-> acc]
  ELSE IF ~ParseIP(allDNSServers[i]) THEN [err |-> TRUE, servers |-> <<>>]
  ELSE IF IsLinkLocalUnicast(allDNSServers[i])
       THEN LocalDNSFrom(allDNSServers, i + 1, Append(acc, allDNSServers[i]))
       ELSE LocalDNSFrom(allDNSServers, i + 1, acc)

getLocalDNSServers(allDNSServers) == LocalDNSFrom(allDNSServers, 1, <<>>)

\* mutant: an entry that is no IP address is skipped
cmdAdd_getLocalDNSServers_SkipsInvalid(p) ==
  /\ InAdd(p, "getLocalDNSServers")
  /\ LET dns == cfgDNSServers
         r   == getLocalDNSServers(SelectSeq(dns, ParseIP))
         rec == [Logged(inv[p], "getLocalDNSServers", ~r.err, "") EXCEPT !.DNSServers = dns]
     IN  Set(p, IF r.err THEN Returned(rec, "invalid DNS server")
                ELSE At([rec EXCEPT !.localDNSServers = r.servers], "GetNamesFromIPs"))
  /\ UNCHANGED <<shared, ncalls, last, masqOwner, cfgDNSServers>>

\* localDNSServers, err := getLocalDNSServers(cfg.DNSServers)
cmdAdd_getLocalDNSServers(p) ==
  /\ InAdd(p, "getLocalDNSServers")
  /\ LET dns == cfgDNSServers
         r   == getLocalDNSServers(dns)
         rec == [Logged(inv[p], "getLocalDNSServers", ~r.err, "") EXCEPT !.DNSServers = dns]
     IN  Set(p, IF r.err THEN Returned(rec, "invalid DNS server")
                ELSE At([rec EXCEPT !.localDNSServers = r.servers], "GetNamesFromIPs"))
  /\ UNCHANGED <<shared, ncalls, last, masqOwner, cfgDNSServers>>

\* interfaceNames: cfg.TemporaryUnderlayInterfaceNames when non-empty, else
\* interfaceNameLookup.GetNamesFromIPs(cfg.UnderlayIPs), which can fail
cmdAdd_GetNamesFromIPs(p) ==
  /\ InAdd(p, "GetNamesFromIPs")
  /\ \/ Set(p, At(Logged(inv[p], "interfaceNames", TRUE, ""), "CheckContainerID"))
     \/ \E ok \in BOOLEAN :
          LET rec == Logged(inv[p], "interfaceNames", ok, "")
          IN  Set(p, IF ok THEN At(rec, "CheckContainerID")
                     ELSE Returned(rec, "looking up interface names"))
  /\ UNCHANGED <<shared, ncalls, last, masqOwner, cfgDNSServers>>

\* if args.ContainerID == "" { return fmt.Errorf("invalid Container ID") }
cmdAdd_CheckContainerID(p) ==
  /\ InAdd(p, "CheckContainerID")
  /\ Set(p, IF inv[p].ContainerID = "" THEN Returned(inv[p], "invalid Container ID")
            ELSE At(inv[p], "NetOutInitialize"))
  /\ UNCHANGED <<shared, ncalls, last, masqOwner, cfgDNSServers>>

\* netOutProvider.Initialize()
cmdAdd_NetOutInitialize(p) ==
  /\ InAdd(p, "NetOutInitialize")
  /\ \E ok \in BOOLEAN :
       LET rec == Logged(inv[p], "NetOutInitialize", ok, "")
       IN  /\ netout' = IF ok THEN NetOutInitialize(netout, inv[p].ContainerID) ELSE netout
           /\ Set(p, IF ok THEN At(rec, "NetInInitialize")
                     ELSE Returned(rec, "initialize net out"))
  /\ UNCHANGED <<store, netin, masq, ncalls, last, masqOwner, cfgDNSServers>>

\* mutant: the bulk egress insert is left out after the port mappings
AfterMapping_SkipsBulkInsert(rec) ==
  IF rec.idx > Len(rec.portMappings) THEN At(rec, "AddIPMasq") ELSE At(rec, "PortMappings")

\* where the port-mapping loop stands: the next entry, or past the last one
AfterMapping(rec) ==
  IF rec.idx > Len(rec.portMappings) THEN At(rec, "BulkInsertRules") ELSE At(rec, "PortMappings")

\* err = netinProvider.Initialize(args.ContainerID): err is assigned and not
\* looked at; then portMappings := cfg.RuntimeConfig.PortMappings
cmdAdd_NetInInitialize(p) ==
  /\ InAdd(p, "NetInInitialize")
  /\ \E ok \in BOOLEAN, pm \in PortMappingLists :
       LET rec == Logged(inv[p], "NetInInitialize", ok, "")
       IN  /\ netin' = IF ok THEN NetInInitialize(netin, inv[p].ContainerID) ELSE netin
           /\ Set(p, AfterMapping([rec EXCEPT !.portMappings = pm, !.idx = 1]))
  /\ UNCHANGED <<store, netout, masq, ncalls, last, masqOwner, cfgDNSServers>>

\* mutant: only a negative host port is refused
cmdAdd_PortMapping_ZeroAllowed(p) ==
  /\ InAdd(p, "PortMappings")
  /\ LET netIn == inv[p].portMappings[inv[p].idx]
     IN  IF netIn.HostPort < 0
         THEN /\ Set(p, Returned(inv[p], "cannot allocate port"))
              /\ netin' = netin
         ELSE \/ /\ NetInAddRuleCanSucceed(netin, inv[p].ContainerID)
                 /\ netin' = NetInAddRule(netin, inv[p].ContainerID, netIn)
                 /\ Set(p, AfterMapping([Logged(inv[p], "AddRule", TRUE, "")
                                           EXCEPT !.idx = @ + 1,
                                                  !.applied = Append(@, netIn)]))
              \/ /\ netin' = netin
                 /\ Set(p, Returned(Logged(inv[p], "AddRule", FALSE, ""), "adding netin rule"))
  /\ UNCHANGED <<store, netout, masq, ncalls, last, masqOwner, cfgDNSServers>>

\* one iteration of: for _, netIn := range portMappings
cmdAdd_PortMapping(p) ==
  /\ InAdd(p, "PortMappings")
  /\ LET netIn == inv[p].portMappings[inv[p].idx]
     IN  IF netIn.HostPort <= 0
         THEN /\ Set(p, Returned(inv[p], "cannot allocate port"))
              /\ netin' = netin
         ELSE \/ /\ NetInAddRuleCanSucceed(netin, inv[p].ContainerID)
                 /\ netin' = NetInAddRule(netin, inv[p].ContainerID, netIn)
                 /\ Set(p, AfterMapping([Logged(inv[p], "AddRule", TRUE, "")
                                           EXCEPT !.idx = @ + 1,
                                                  !.applied = Append(@, netIn)]))
              \/ /\ netin' = netin
                 /\ Set(p, Returned(Logged(inv[p], "AddRule", FALSE, ""), "adding netin rule"))
  /\ UNCHANGED <<store, netout, masq, ncalls, last, masqOwner, cfgDNSServers>>

\* netOutProvider.BulkInsertRules(cfg.RuntimeConfig.NetOutRules)
cmdAdd_BulkInsertRules(p) ==
  /\ InAdd(p, "BulkInsertRules")
  /\ \/ /\ NetOutBulkInsertCanSucceed(netout, inv[p].ContainerID)
        /\ netout' = NetOutBulkInsertRules(netout, inv[p].ContainerID)
        /\ Set(p, At(Logged(inv[p], "BulkInsertRules", TRUE, ""), "AddIPMasq"))
     \/ /\ netout' \in NetOutBulkInsertFailed(netout, inv[p].ContainerID)
        /\ Set(p, Returned(Logged(inv[p], "BulkInsertRules", FALSE, ""), "bulk insert"))
  /\ UNCHANGED <<store, netin, masq, ncalls, last, masqOwner, cfgDNSServers>>

\* pluginController.AddIPMasq(containerIP.String(), ...)
cmdAdd_AddIPMasq(p) ==
  /\ InAdd(p, "AddIPMasq")
  /\ \E ok \in BOOLEAN :
       LET rec == Logged(inv[p], "AddIPMasq", ok, inv[p].containerIP)
       IN  /\ masq' = IF ok THEN AddIPMasq(masq, inv[p].containerIP) ELSE masq
           /\ masqOwner' = IF ok THEN [masqOwner EXCEPT ![inv[p].ContainerID] = inv[p].containerIP]
                           ELSE masqOwner
           /\ Set(p, IF ok THEN At(rec, "Print")
                     ELSE Returned(rec, "error setting up default ip masq rule"))
  /\ UNCHANGED <<store, netin, netout, ncalls, last, cfgDNSServers>>

\* mutant: the printed result carries the link-local servers only
cmdAdd_Print_LocalDNS(p) ==
  /\ InAdd(p, "Print")
  /\ \E ok \in BOOLEAN :
       LET rec == Logged(inv[p], "Print", ok, "")
           res == [rec.result EXCEPT !.Nameservers = rec.localDNSServers]
       IN  Set(p, IF ok THEN Returned([rec EXCEPT !.printed = res], "ok")
                  ELSE Returned(rec, "print"))
  /\ UNCHANGED <<shared, ncalls, last, masqOwner, cfgDNSServers>>

\* result030.DNS.Nameservers = cfg.DNSServers; return result030.Print()
cmdAdd_Print(p) ==
  /\ InAdd(p, "Print")
  /\ \E ok \in BOOLEAN :
       LET rec == Logged(inv[p], "Print", ok, "")
           res == [rec.result EXCEPT !.Nameservers = rec.DNSServers]
       IN  Set(p, IF ok THEN Returned([rec EXCEPT !.printed = res], "ok")
                  ELSE Returned(rec, "print"))
  /\ UNCHANGED <<shared, ncalls, last, masqOwner, cfgDNSServers>>

cmdAdd(p) ==
  \/ cmdAdd_LoadWrapperConfig(p)
  \/ cmdAdd_newPluginController(p)
  \/ cmdAdd_DelegateAdd(p)
  \/ cmdAdd_NewResultFromResult(p)
  \/ cmdAdd_Unmarshal(p)
  \/ cmdAdd_StoreAdd(p)
  \/ cmdAdd_StoreAddCleanup(p)
  \/ cmdAdd_PolicyPoll(p)
  \/ cmdAdd_getLocalDNSServers(p)
  \/ cmdAdd_GetNamesFromIPs(p)
  \/ cmdAdd_CheckContainerID(p)
  \/ cmdAdd_NetOutInitialize(p)
  \/ cmdAdd_NetInInitialize(p)
  \/ cmdAdd_PortMapping(p)
  \/ cmdAdd_BulkInsertRules(p)
  \/ cmdAdd_AddIPMasq(p)
  \/ cmdAdd_Print(p)

\* ------------------------------------------------------------- cmdDel
InDel(p, pc) == inv[p].op = "DEL" /\ inv[p].pc = pc /\ Ready(p)

\* n, err := lib.LoadWrapperConfig(args.StdinData)
cmdDel_LoadWrapperConfig(p) ==
  /\ InDel(p, "LoadWrapperConfig")
  /\ \E ok \in BOOLEAN :
       LET rec == Logged(inv[p], "LoadWrapperConfig", ok, "")
       IN  Set(p, IF ok THEN At(rec, "StoreDelete") ELSE Returned(rec, "config"))
  /\ UNCHANGED <<shared, ncalls, last, masqOwner, cfgDNSServers>>

\* mutant: a failed removal hands back a zero-valued record
cmdDel_StoreDelete_NoRecordOnError(p) ==
  /\ InDel(p, "StoreDelete")
  /\ LET container == StoreLookup(store, inv[p].ContainerID)
     IN  \/ /\ StoreDeleteCanSucceed(store, inv[p].ContainerID)
            /\ store' = StoreDelete(store, inv[p].ContainerID)
            /\ Set(p, At([Logged(inv[p], "StoreDelete", TRUE, container.IP)
                            EXCEPT !.container = container], "newPluginController"))
         \/ /\ store' = store
            /\ Set(p, At([Logged(inv[p], "StoreDelete", FALSE, "")
                            EXCEPT !.container = [IP |-> ""]], "newPluginController"))
  /\ UNCHANGED <<netin, netout, masq, ncalls, last, masqOwner, cfgDNSServers>>

\* mutant: after a failed removal Del returns success at once
cmdDel_StoreDelete_GivesUp(p) ==
  /\ InDel(p, "StoreDelete")
  /\ LET container == StoreLookup(store, inv[p].ContainerID)
     IN  \/ /\ StoreDeleteCanSucceed(store, inv[p].ContainerID)
            /\ store' = StoreDelete(store, inv[p].ContainerID)
            /\ Set(p, At([Logged(inv[p], "StoreDelete", TRUE, container.IP)
                            EXCEPT !.container = container], "newPluginController"))
         \/ /\ store' = store
            /\ Set(p, Returned([Logged(inv[p], "StoreDelete", FALSE, container.IP)
                                  EXCEPT !.container = container], "ok"))
  /\ UNCHANGED <<netin, netout, masq, ncalls, last, masqOwner, cfgDNSServers>>

\* mutant: the store's error ends Del
cmdDel_StoreDelete_Fatal(p) ==
  /\ InDel(p, "StoreDelete")
  /\ LET container == StoreLookup(store, inv[p].ContainerID)
     IN  \/ /\ StoreDeleteCanSucceed(store, inv[p].ContainerID)
            /\ store' = StoreDelete(store, inv[p].ContainerID)
            /\ Set(p, At([Logged(inv[p], "StoreDelete", TRUE, container.IP)
                            EXCEPT !.container = container], "newPluginController"))
         \/ /\ store' = store
            /\ Set(p, Returned([Logged(inv[p], "StoreDelete", FALSE, container.IP)
                                  EXCEPT !.container = container], "store delete"))
  /\ UNCHANGED <<netin, netout, masq, ncalls, last, masqOwner, cfgDNSServers>>

\* container, err := store.Delete(args.ContainerID); the error is only logged.
\* Delete hands back the record that existed (zero-valued for an absent
\* handle, which it reports as an error); when the removal fails the record
\* stays in the store.
cmdDel_StoreDelete(p) ==
  /\ InDel(p, "StoreDelete")
  /\ LET container == StoreLookup(store, inv[p].ContainerID)
     IN  \/ /\ StoreDeleteCanSucceed(store, inv[p].ContainerID)
            /\ store' = StoreDelete(store, inv[p].ContainerID)
            /\ Set(p, At([Logged(inv[p], "StoreDelete", TRUE, container.IP)
                            EXCEPT !.container = container], "newPluginController"))
         \/ /\ store' = store
            /\ Set(p, At([Logged(inv[p], "StoreDelete", FALSE, container.IP)
                            EXCEPT !.container = container], "newPluginController"))
  /\ UNCHANGED <<netin, netout, masq, ncalls, last, masqOwner, cfgDNSServers>>

\* pluginController, err := newPluginController(n.IPTablesLockFile)
cmdDel_newPluginController(p) ==
  /\ InDel(p, "newPluginController")
  /\ \E ok \in BOOLEAN :
       LET rec == Logged(inv[p], "newPluginController", ok, "")
       IN  Set(p, IF ok THEN At(rec, "DelegateDel") ELSE Returned(rec, "iptables"))
  /\ UNCHANGED <<shared, ncalls, last, masqOwner, cfgDNSServers>>

\* mutant: the egress teardown is entered straight after the delegate's Del
cmdDel_DelegateDel_ThenEgress(p) ==
  /\ InDel(p, "DelegateDel")
  /\ \E ok \in BOOLEAN :
       Set(p, At(Logged(inv[p], "DelegateDel", ok, ""), "GetNamesFromIPs"))
  /\ UNCHANGED <<shared, ncalls, last, masqOwner, cfgDNSServers>>

\* mutant: the delegate's error is returned
cmdDel_DelegateDel_Fatal(p) ==
  /\ InDel(p, "DelegateDel")
  /\ \E ok \in BOOLEAN :
       LET rec == Logged(inv[p], "DelegateDel", ok, "")
       IN  Set(p, IF ok THEN At(rec, "NetInCleanup") ELSE Returned(rec, "delegate delete"))
  /\ UNCHANGED <<shared, ncalls, last, masqOwner, cfgDNSServers>>

\* pluginController.DelegateDel(n.Delegate); the error is only logged
cmdDel_DelegateDel(p) ==
  /\ InDel(p, "DelegateDel")
  /\ \E ok \in BOOLEAN :
       Set(p, At(Logged(inv[p], "DelegateDel", ok, ""), "NetInCleanup"))
  /\ UNCHANGED <<shared, ncalls, last, masqOwner, cfgDNSServers>>

\* mutant: a failed ingress teardown ends Del
cmdDel_NetInCleanup_Stops(p) ==
  /\ InDel(p, "NetInCleanup")
  /\ \E ok \in BOOLEAN :
       LET rec == Logged(inv[p], "NetInCleanup", ok, "")
       IN  /\ netin' = IF ok THEN NetInCleanup(netin, inv[p].ContainerID) ELSE netin
           /\ Set(p, IF ok THEN At(rec, "GetNamesFromIPs") ELSE Returned(rec, "ok"))
  /\ UNCHANGED <<store, netout, masq, ncalls, last, masqOwner, cfgDNSServers>>

\* netInProvider.Cleanup(args.ContainerID); the error is only logged
cmdDel_NetInCleanup(p) ==
  /\ InDel(p, "NetInCleanup")
  /\ \E ok \in BOOLEAN :
       /\ netin' = IF ok THEN NetInCleanup(netin, inv[p].ContainerID) ELSE netin
       /\ Set(p, At(Logged(inv[p], "NetInCleanup", ok, ""), "GetNamesFromIPs"))
  /\ UNCHANGED <<store, netout, masq, ncalls, last, masqOwner, cfgDNSServers>>

\* interfaceNames: n.TemporaryUnderlayInterfaceNames when non-empty, else
\* interfaceNameLookup.GetNamesFromIPs(n.UnderlayIPs), whose error is returned
cmdDel_GetNamesFromIPs(p) ==
  /\ InDel(p, "GetNamesFromIPs")
  /\ \/ Set(p, At(Logged(inv[p], "interfaceNames", TRUE, ""), "NetOutCleanup"))
     \/ \E ok \in BOOLEAN :
          LET rec == Logged(inv[p], "interfaceNames", ok, "")
          IN  Set(p, IF ok THEN At(rec, "NetOutCleanup")
                     ELSE Returned(rec, "looking up interface names"))
  /\ UNCHANGED <<shared, ncalls, last, masqOwner, cfgDNSServers>>

\* netOutProvider.Cleanup(); the error is only logged
cmdDel_NetOutCleanup(p) ==
  /\ InDel(p, "NetOutCleanup")
  /\ \E ok \in BOOLEAN :
       /\ netout' = IF ok THEN NetOutCleanup(netout, inv[p].ContainerID) ELSE netout
       /\ Set(p, At(Logged(inv[p], "NetOutCleanup", ok, inv[p].container.IP), "DelIPMasq"))
  /\ UNCHANGED <<store, netin, masq, ncalls, last, masqOwner, cfgDNSServers>>

\* mutant: the removal is given the container handle, not the stored IP
cmdDel_DelIPMasq_WrongArg(p) ==
  /\ InDel(p, "DelIPMasq")
  /\ \E ok \in BOOLEAN :
       /\ masq' = IF ok THEN DelIPMasq(masq, inv[p].ContainerID) ELSE masq
       /\ Set(p, Returned(Logged(inv[p], "DelIPMasq", ok, inv[p].ContainerID), "ok"))
  /\ UNCHANGED <<store, netin, netout, ncalls, last, masqOwner, cfgDNSServers>>

\* pluginController.DelIPMasq(container.IP, ...); the error is only logged
cmdDel_DelIPMasq(p) ==
  /\ InDel(p, "DelIPMasq")
  /\ \E ok \in BOOLEAN :
       /\ masq' = IF ok THEN DelIPMasq(masq, inv[p].container.IP) ELSE masq
       /\ Set(p, Returned(Logged(inv[p], "DelIPMasq", ok, inv[p].container.IP), "ok"))
  /\ UNCHANGED <<store, netin, netout, ncalls, last, masqOwner, cfgDNSServers>>

cmdDel(p) ==
  \/ cmdDel_LoadWrapperConfig(p)
  \/ cmdDel_StoreDelete(p)
  \/ cmdDel_newPluginController(p)
  \/ cmdDel_DelegateDel(p)
  \/ cmdDel_NetInCleanup(p)
  \/ cmdDel_GetNamesFromIPs(p)
  \/ cmdDel_NetOutCleanup(p)
  \/ cmdDel_DelIPMasq(p)

\* ------------------------------------------------------ specification
Next ==
  \E p \in Procs :
    \/ StartSeq(p)
    \/ IPTablesEnter(p)
    \/ cmdAdd(p)
    \/ cmdDel(p)
    \/ Exit(p)

Spec == Init /\ [][Next]_vars

\* one invocation on a host whose wrapper config holds any DNS list of up to
\* MaxDNSServers entries
InitDNS ==
  /\ inv = [p \in Procs |-> Idle]
  /\ store = [h \in Handles |-> NoRecord]
  /\ netin = [h \in Handles |-> NoChain]
  /\ netout = [h \in Handles |-> "absent"]
  /\ masq = {}
  /\ ncalls = MaxCalls - 1
  /\ last = NoLast
  /\ masqOwner = [h \in Handles |-> ""]
  /\ cfgDNSServers \in AllDNSServerLists

SpecDNS == InitDNS /\ [][Next]_vars

\* ------------------------------------------- concurrent invocations
\* the handles of two racing invocations: the same one or two different ones
\* (the names of the non-empty handles are interchangeable)
RaceHandles == IF ncalls = MaxCalls - 2 THEN {"c1"} ELSE {"c1", "c2"}

\* the runtime starts an invocation, whether or not another one is running
StartConc(p) == \E op \in {"ADD", "DEL"}, handle \in RaceHandles : Start(p, op, handle)

\* the ingress Initialize step of a racing Add, which carries at most
\* MaxRaceMappings port mappings
cmdAdd_NetInInitialize_Race(p) ==
  /\ cmdAdd_NetInInitialize(p)
  /\ Len(inv'[p].portMappings) <= MaxRaceMappings

\* cmdAdd of a racing invocation
cmdAddRace(p) ==
  \/ cmdAdd_LoadWrapperConfig(p)
  \/ cmdAdd_newPluginController(p)
  \/ cmdAdd_DelegateAdd(p)
  \/ cmdAdd_NewResultFromResult(p)
  \/ cmdAdd_Unmarshal(p)
  \/ cmdAdd_StoreAdd(p)
  \/ cmdAdd_StoreAddCleanup(p)
  \/ cmdAdd_PolicyPoll(p)
  \/ cmdAdd_getLocalDNSServers(p)
  \/ cmdAdd_GetNamesFromIPs(p)
  \/ cmdAdd_CheckContainerID(p)
  \/ cmdAdd_NetOutInitialize(p)
  \/ cmdAdd_NetInInitialize_Race(p)
  \/ cmdAdd_PortMapping(p)
  \/ cmdAdd_BulkInsertRules(p)
  \/ cmdAdd_AddIPMasq(p)
  \/ cmdAdd_Print(p)

\* a started invocation takes its next step: a call of its handler, the
\* entry into an operation on iptables, or its exit
Run(p) == IPTablesEnter(p) \/ cmdAddRace(p) \/ cmdDel(p) \/ Exit(p)

NextConc ==
  \E p \in Procs :
    \/ StartConc(p)
    \/ IPTablesEnter(p)
    \/ cmdAddRace(p)
    \/ cmdDel(p)
    \/ Exit(p)

\* two invocations are still to come on a host with nothing installed
InitConc ==
  /\ inv = [p \in Procs |-> Idle]
  /\ store = [h \in Handles |-> NoRecord]
  /\ netin = [h \in Handles |-> NoChain]
  /\ netout = [h \in Handles |-> "absent"]
  /\ masq = {}
  /\ ncalls = MaxCalls - 2
  /\ last = NoLast
  /\ masqOwner = [h \in Handles |-> ""]
  /\ cfgDNSServers \in DNSServerLists

\* while some started invocation can take a step, the operating system
\* lets one of them take it
SpecConc == InitConc /\ [][NextConc]_vars /\ WF_vars(\E p \in Procs : Run(p))

\* ------------------------------------------------- long container handles
\* the invocations run one after the other, for handles longer than a chain
\* name
StartLong(p) ==
  /\ \A q \in Procs : inv[q].pc = "idle"
  /\ \E op \in {"ADD", "DEL"}, handle \in LongHandles : Start(p, op, handle)

NextLong ==
  \E p \in Procs :
    \/ StartLong(p)
    \/ IPTablesEnter(p)
    \/ cmdAdd(p)
    \/ cmdDel(p)
    \/ Exit(p)

\* nothing is installed on the host
InitLong ==
  /\ inv = [p \in Procs |-> Idle]
  /\ store = [h \in LongHandles |-> NoRecord]
  /\ netin = [h \in LongHandles |-> NoChain]
  /\ netout = [h \in LongHandles |-> "absent"]
  /\ masq = {}
  /\ ncalls = 0
  /\ last = NoLast
  /\ masqOwner = [h \in LongHandles |-> ""]
  /\ cfgDNSServers \in DNSServerLists

SpecLong == InitLong /\ [][NextLong]_vars

\* ------------------------------------------------- vocabulary of the claims
Done(p, op) == inv[p].pc = "done" /\ inv[p].op = op

CallIdx(rec) == 1..Len(rec.calls)

Called(rec, name) == \E i \in CallIdx(rec) : rec.calls[i].call = name

Failed(rec, name) == \E i \in CallIdx(rec) : rec.calls[i].call = name /\ ~rec.calls[i].ok

Succeeded(rec, name) == \E i \in CallIdx(rec) : rec.calls[i].call = name /\ rec.calls[i].ok

AllCallsOk(rec) == \A i \in CallIdx(rec) : rec.calls[i].ok

CallNames(rec) == [i \in CallIdx(rec) |-> rec.calls[i].call]

LastCall(rec) == IF Len(rec.calls) = 0 THEN Call("", TRUE, "") ELSE rec.calls[Len(rec.calls)]

\* calls that create or change chains, rules or the masquerade exemption
FirewallCalls == {"NetOutInitialize", "NetInInitialize", "AddRule", "BulkInsertRules", "AddIPMasq"}

RuleInsertions == {"AddRule", "BulkInsertRules"}

\* this Del directly follows a successful Add of the same handle that began
\* with no record, no chain and no exemption for it
FollowsCleanAdd(rec) == rec.prev.good /\ rec.prev.ContainerID = rec.ContainerID

\* ---------------------------------------------------------------- C1
\* C1: a successful Add on a handle without record, chains or exemption,
\* directly followed by a Del of that handle whose steps all succeed, leaves
\* no store record, no ingress chain, no egress chain and no masquerade
\* exemption for the handle.
C1_AddThenDelLeavesNothing ==
  \A p \in Procs :
    (Done(p, "DEL") /\ FollowsCleanAdd(inv[p]) /\ AllCallsOk(inv[p]) /\ inv[p].ret = "ok")
      => /\ HandleClean(inv[p].ContainerID)
         /\ inv[p].prev.containerIP \notin masq

C1_Witness ==
  \E p \in Procs :
    /\ Done(p, "DEL") /\ FollowsCleanAdd(inv[p]) /\ AllCallsOk(inv[p]) /\ inv[p].ret = "ok"
    /\ Succeeded(inv[p], "DelIPMasq")
    /\ inv[p].container.IP = inv[p].prev.containerIP

\* ---------------------------------------------------------------- C2
\* C2 as stated: an exemption for an IP exists exactly when an Add of some
\* container got through MasqueradeApplied with that IP and no Del for the
\* container has run since; and after an Add whose store write failed there
\* is no exemption for its IP.
C2_Original ==
  /\ \A ip \in IPs : ip \in masq <=> (\E h \in Handles : masqOwner[h] = ip)
  /\ \A p \in Procs :
       (Done(p, "ADD") /\ inv[p].ret = "store add") => inv[p].containerIP \notin masq

\* C2 amended: an exemption for an IP appears only by the AddIPMasq step of an
\* Add that holds that IP and whose earlier steps all went through (the failed
\* ingress Initialize aside, which Add does not look at); it disappears only
\* by a successful DelIPMasq; and when an Add's store write fails and the
\* compensating removal succeeds, no exemption for its IP exists when it
\* returns.
C2_MasqOnlyByCompletedAdd ==
  /\ [][ /\ \A ip \in masq' \ masq :
              \E p \in Procs :
                /\ InAdd(p, "AddIPMasq") /\ inv[p].containerIP = ip
                /\ Succeeded(inv[p], "StoreAdd") /\ Succeeded(inv[p], "BulkInsertRules")
                /\ \A i \in CallIdx(inv[p]) :
                     inv[p].calls[i].call # "NetInInitialize" => inv[p].calls[i].ok
                /\ LastCall(inv'[p]) = Call("AddIPMasq", TRUE, ip)
         /\ \A ip \in masq \ masq' :
              \E p \in Procs : LastCall(inv'[p]) = Call("DelIPMasq", TRUE, ip)
       ]_vars
  /\ [](\A p \in Procs :
          (Done(p, "ADD") /\ inv[p].ret = "store add" /\ LastCall(inv[p]).ok)
            => inv[p].containerIP \notin masq)

\* an Add whose store write failed, whose removal succeeded, for an IP that
\* did have an exemption (the Add before it completed with the same IP)
C2_Witness ==
  \E p \in Procs :
    /\ Done(p, "ADD") /\ inv[p].ret = "store add" /\ LastCall(inv[p]).ok
    /\ inv[p].prev.good /\ inv[p].prev.containerIP = inv[p].containerIP
    /\ inv[p].containerIP \notin masq

\* ---------------------------------------------------------------- C3
\* the steps of Del whose failure makes Del return the error
DelFatal == {"LoadWrapperConfig", "newPluginController", "interfaceNames"}

DelSteps ==
  <<"LoadWrapperConfig", "StoreDelete", "newPluginController", "DelegateDel",
    "NetInCleanup", "interfaceNames", "NetOutCleanup", "DelIPMasq">>

C5_Original ==
  \A p \in Procs :
    inv[p].op = "ADD" =>
      /\ \A i \in CallIdx(inv[p]) :
           (i < Len(inv[p].calls) /\ ~inv[p].calls[i].ok) =>
             /\ inv[p].calls[i].call = "StoreAdd"
             /\ i + 1 = Len(inv[p].calls)
             /\ inv[p].calls[i + 1].call = "DelIPMasq"
      /\ (inv[p].pc = "done" /\ ~AllCallsOk(inv[p])) => inv[p].ret \notin {"ok", "panic"}

\* ---------------------------------------------------------------- C6
\* C6: within one Add, every rule insertion (AddRule, BulkInsertRules) comes
\* after the egress Initialize has succeeded and the ingress Initialize has
\* been run; AddIPMasq comes after every rule insertion, and only when every
\* port mapping has been applied and the bulk egress insert has succeeded.
C6_InitBeforeRulesBeforeMasq ==
  \A p \in Procs :
    inv[p].op = "ADD" =>
      \A i \in CallIdx(inv[p]) :
        LET c == inv[p].calls
        IN  /\ c[i].call \in RuleInsertions =>
                 /\ \E j \in 1..(i - 1) : c[j] = Call("NetOutInitialize", TRUE, "")
                 /\ \E j \in 1..(i - 1) : c[j].call = "NetInInitialize"
            /\ c[i].call = "AddIPMasq" =>
                 /\ \A j \in CallIdx(inv[p]) : c[j].call \in RuleInsertions => j < i /\ c[j].ok
                 /\ \E j \in 1..(i - 1) : c[j].call = "BulkInsertRules"
                 /\ inv[p].applied = inv[p].portMappings
                 /\ Cardinality({ j \in 1..(i - 1) : c[j].call = "AddRule" })
                      = Len(inv[p].portMappings)

C6_Witness ==
  \E p \in Procs :
    /\ inv[p].op = "ADD" /\ Succeeded(inv[p], "AddIPMasq")
    /\ Len(inv[p].applied) >= 2

\* ---------------------------------------------------------------- C7
AddStepsToDelegate == <<"LoadWrapperConfig", "newPluginController", "DelegateAdd">>

\* C7: when the delegate Add fails, Add returns the delegate error having
\* made no other call (no store write, no notification, no chain
\* initialization, no rule insertion, no masquerade add or removal), and the
\* store, the chains and the exemptions are as they were.
C7_DelegateFailureCreatesNothing ==
  /\ [](\A p \in Procs :
          (inv[p].op = "ADD" /\ Failed(inv[p], "DelegateAdd")) =>
            /\ inv[p].pc = "done" /\ inv[p].ret = "delegate call"
            /\ CallNames(inv[p]) = AddStepsToDelegate
            /\ inv[p].clean => HandleClean(inv[p].ContainerID))
  /\ [][\A p \in Procs :
          ((InAdd(p, "LoadWrapperConfig") \/ InAdd(p, "newPluginController")
              \/ InAdd(p, "DelegateAdd")) /\ inv'[p] # inv[p]) => UNCHANGED shared]_vars
  /\ [][\A p \in Procs :
          (InAdd(p, "DelegateAdd") /\ inv'[p].pc # "done") =>
            LastCall(inv'[p]) = Call("DelegateAdd", TRUE, "")]_vars

C7_Witness ==
  \E p \in Procs :
    /\ Done(p, "ADD") /\ inv[p].ret = "delegate call" /\ Failed(inv[p], "DelegateAdd")
    /\ inv[p].clean

\* ---------------------------------------------------------------- C8
AddStepsToStore ==
  <<"LoadWrapperConfig", "newPluginController", "DelegateAdd", "NewResultFromResult",
    "Unmarshal", "StoreAdd">>

\* C8: when the store write fails, Add makes exactly one more call, the
\* DelIPMasq of the container IP, and returns the store error whether or not
\* that removal succeeds; no notification, chain initialization or rule
\* insertion is made.
C8_StoreFailureCompensation ==
  \A p \in Procs :
    (inv[p].op = "ADD" /\ Failed(inv[p], "StoreAdd")) =>
      \/ /\ inv[p].pc = "StoreAddCleanup"
         /\ CallNames(inv[p]) = AddStepsToStore
      \/ /\ inv[p].pc = "done" /\ inv[p].ret = "store add"
         /\ CallNames(inv[p]) = Append(AddStepsToStore, "DelIPMasq")
         /\ LastCall(inv[p]).arg = inv[p].containerIP

C8_Witness ==
  \E p \in Procs :
    /\ Done(p, "ADD") /\ inv[p].ret = "store add"
    /\ Failed(inv[p], "StoreAdd") /\ Failed(inv[p], "DelIPMasq")

\* ---------------------------------------------------------------- C9
\* C9: the notification counts as failed on a transport error and on every
\* status other than 200; Add then returns an error with the notification as
\* its last call, the record it wrote is still in the store, and no chain
\* initialization, rule insertion or masquerade add was made.
C9_PolicyPollFailureKeepsRecord ==
  \A p \in Procs :
    inv[p].op = "ADD" =>
      /\ \A i \in CallIdx(inv[p]) :
           inv[p].calls[i].call = "PolicyPoll" =>
             (inv[p].calls[i].ok <=> inv[p].calls[i].arg = "200")
      /\ Failed(inv[p], "PolicyPoll") =>
           /\ inv[p].pc = "done"
           /\ inv[p].ret \in {"policy poll", "vpa response code"}
           /\ LastCall(inv[p]).call = "PolicyPoll"
           /\ store[inv[p].ContainerID] = inv[p].containerIP
           /\ \A c \in FirewallCalls \cup {"DelIPMasq"} : ~Called(inv[p], c)

C9_Witness ==
  \E p \in Procs :
    /\ Done(p, "ADD") /\ inv[p].ret = "vpa response code"
    /\ LastCall(inv[p]) = Call("PolicyPoll", FALSE, "204")
    /\ store[inv[p].ContainerID] = inv[p].containerIP

\* ---------------------------------------------------------------- C10
\* position of the first entry with host port <= 0, 0 if there is none
FirstBadMapping(pm) ==
  IF \E i \in 1..Len(pm) : pm[i].HostPort <= 0
  THEN CHOOSE i \in 1..Len(pm) :
         pm[i].HostPort <= 0 /\ \A j \in 1..(i - 1) : pm[j].HostPort > 0
  ELSE 0

\* the last n rules of a chain
Tail_n(rules, n) == SubSeq(rules, Len(rules) - n + 1, Len(rules))

\* C10: an Add whose port-mapping list has its first host port <= 0 at
\* position k never returns success and never runs the bulk egress insert or
\* the masquerade add; when it stops at that entry, the k-1 earlier mappings
\* and no others have been applied by AddRule in this Add and are the last
\* k-1 rules of the ingress chain.
C10_BadHostPortStopsAdd ==
  \A p \in Procs :
    LET k == FirstBadMapping(inv[p].portMappings)
    IN  (Done(p, "ADD") /\ k > 0) =>
          /\ inv[p].ret \in {"cannot allocate port", "adding netin rule"}
          /\ ~Called(inv[p], "BulkInsertRules") /\ ~Called(inv[p], "AddIPMasq")
          /\ inv[p].ret = "cannot allocate port" =>
               /\ inv[p].idx = k
               /\ inv[p].applied = SubSeq(inv[p].portMappings, 1, k - 1)
               /\ Cardinality({ i \in CallIdx(inv[p]) : inv[p].calls[i].call = "AddRule" }) = k - 1
               /\ Len(netin[inv[p].ContainerID].rules) >= k - 1
               /\ Tail_n(netin[inv[p].ContainerID].rules, k - 1) = inv[p].applied

C10_Witness ==
  \E p \in Procs :
    /\ Done(p, "ADD") /\ inv[p].ret = "cannot allocate port"
    /\ inv[p].idx = 2 /\ Len(inv[p].applied) = 1
    /\ netin[inv[p].ContainerID].rules = inv[p].applied


\* ---------------------------------------------------------------- C11
\* C11: a Del of a handle that has no store record, no ingress chain and no
\* egress chain changes nothing in the store, the chains or the masquerade
\* exemptions at any of its steps; the store reports the absent record as an
\* error, Del goes on through every later step, and it returns success
\* whenever the config, the plugin controller and the interface names were
\* obtained.
C11_DelOfAbsentHandle ==
  /\ [][ \A p \in Procs :
           (inv[p].op = "DEL" /\ inv[p].clean /\ inv[p].pc # "done" /\ inv'[p] # inv[p])
             => UNCHANGED shared ]_vars
  /\ [](\A p \in Procs :
          (Done(p, "DEL") /\ inv[p].clean /\ \A name \in DelFatal : ~Failed(inv[p], name))
            => /\ inv[p].ret = "ok"
               /\ Failed(inv[p], "StoreDelete")
               /\ CallNames(inv[p]) = DelSteps
               /\ inv[p].container.IP = "")

C11_Witness ==
  \E p \in Procs :
    /\ Done(p, "DEL") /\ inv[p].clean /\ inv[p].ret = "ok"
    /\ Failed(inv[p], "StoreDelete")
    /\ Succeeded(inv[p], "NetInCleanup") /\ Succeeded(inv[p], "NetOutCleanup")
    /\ Succeeded(inv[p], "DelIPMasq")
    /\ masq # {}

\* ---------------------------------------------------------------- C12
\* the addresses of a list that IsLinkLocalUnicast holds of, in list order
LinkLocalOf(servers) == SelectSeq(servers, IsLinkLocalUnicast)

AllParse(servers) == \A i \in 1..Len(servers) : ParseIP(servers[i])

\* C12: once an Add has called getLocalDNSServers on the configured list: if
\* every entry parses, the call succeeds and localDNSServers, which the
\* egress chain manager is built with, is exactly the link-local-unicast
\* entries of the configured list in their order; if some entry does not
\* parse, at whatever position, the Add has returned the invalid-DNS-server
\* error, has initialized no chain and applied no rule, and no chain exists.
C12_LocalDNSServers ==
  \A p \in Procs :
    (inv[p].op = "ADD" /\ Called(inv[p], "getLocalDNSServers")) =>
      /\ inv[p].DNSServers = cfgDNSServers
      /\ AllParse(cfgDNSServers) =>
           /\ Succeeded(inv[p], "getLocalDNSServers")
           /\ inv[p].localDNSServers = LinkLocalOf(cfgDNSServers)
      /\ ~AllParse(cfgDNSServers) =>
           /\ Done(p, "ADD") /\ inv[p].ret = "invalid DNS server"
           /\ LastCall(inv[p]) = Call("getLocalDNSServers", FALSE, "")
           /\ \A name \in FirewallCalls : ~Called(inv[p], name)
           /\ \A h \in Handles : ~netin[h].exists /\ netout[h] = "absent"

\* the egress chain manager was initialized with two link-local servers that
\* stood around a server that is not link-local
C12_Witness ==
  \E p \in Procs :
    /\ inv[p].op = "ADD" /\ Succeeded(inv[p], "NetOutInitialize")
    /\ cfgDNSServers = << <<169, 254, 0, 3>>, <<8, 8, 8, 8>>, <<169, 254, 0, 2>> >>
    /\ inv[p].localDNSServers = << <<169, 254, 0, 3>>, <<169, 254, 0, 2>> >>

\* an Add stopped by an entry that does not parse, after entries that do
C12_WitnessInvalid ==
  \E p \in Procs :
    /\ Done(p, "ADD") /\ inv[p].ret = "invalid DNS server"
    /\ cfgDNSServers = << <<169, 254, 0, 2>>, <<8, 8, 8, 8>>, <<256, 1, 1>> >>

\* ---------------------------------------------------------------- C13
\* C13: an Add that returns success has printed the delegate's result with
\* its addresses as the delegate gave them and with its nameservers replaced
\* by the whole configured DNS list, link-local or not, whatever nameservers
\* the delegate supplied.
C13_ResultCarriesConfiguredDNS ==
  \A p \in Procs :
    (Done(p, "ADD") /\ inv[p].ret = "ok") =>
      /\ inv[p].result \in DelegateResults
      /\ inv[p].printed.IPs = inv[p].result.IPs
      /\ inv[p].printed.IPs = <<inv[p].containerIP>>
      /\ inv[p].printed.Nameservers = cfgDNSServers
      /\ AllCallsOk([inv[p] EXCEPT !.calls = SelectSeq(@, LAMBDA c : c.call # "NetInInitialize")])

\* a successful Add whose configured list holds a server that is not
\* link-local and differs from the delegate's nameservers
C13_Witness ==
  \E p \in Procs :
    /\ Done(p, "ADD") /\ inv[p].ret = "ok"
    /\ inv[p].printed.Nameservers = << <<8, 8, 8, 8>>, <<169, 254, 0, 2>> >>
    /\ inv[p].printed.Nameservers # inv[p].localDNSServers
    /\ inv[p].printed.Nameservers # inv[p].result.Nameservers
    /\ inv[p].printed.IPs = inv[p].result.IPs

\* ---------------------------------------------------------------- C14
\* C14 as stated: an Add whose delegate Add succeeded with a result of zero
\* addresses ends by returning an error to its caller, not by a panic, and
\* has made no store write, no policy-agent notification, no chain
\* initialization and no masquerade change.
C14_Original ==
  \A p \in Procs :
    (Done(p, "ADD") /\ Succeeded(inv[p], "DelegateAdd") /\ Len(inv[p].result.IPs) = 0) =>
      /\ inv[p].ret \notin {"ok", "panic"}
      /\ \A name \in {"StoreAdd", "PolicyPoll"} \cup FirewallCalls : ~Called(inv[p], name)

\* ---------------------------------------------------------------- C15
\* the six teardown steps of Del in the order the claim gives them
DelOrder ==
  <<"StoreDelete", "DelegateDel", "NetInCleanup", "interfaceNames", "NetOutCleanup",
    "DelIPMasq">>

\* the position in cmdDel from which the n-th call of DelSteps is made
DelPcs ==
  <<"LoadWrapperConfig", "StoreDelete", "newPluginController", "DelegateDel",
    "NetInCleanup", "GetNamesFromIPs", "NetOutCleanup", "DelIPMasq">>

TeardownCalls(rec) ==
  SelectSeq(CallNames(rec), LAMBDA name : \E i \in 1..Len(DelOrder) : DelOrder[i] = name)

\* C15: at every moment of a Del the teardown steps it has made so far are
\* the first ones of: store removal, delegate Del, ingress teardown,
\* interface-name resolution, egress teardown, masquerade removal, each made
\* once; a Del that has not returned stands exactly at the step after the
\* last one that returned; and a Del returns success only after all six.
C15_DelStepOrder ==
  \A p \in Procs :
    inv[p].op = "DEL" =>
      LET made == TeardownCalls(inv[p])
      IN  /\ made = SubSeq(DelOrder, 1, Len(made))
          /\ CallNames(inv[p]) = SubSeq(DelSteps, 1, Len(inv[p].calls))
          /\ inv[p].pc # "done" => inv[p].pc = DelPcs[Len(inv[p].calls) + 1]
          /\ inv[p].ret = "ok" => made = DelOrder

\* a Del between its ingress teardown and its interface-name resolution
C15_Witness ==
  \E p \in Procs :
    /\ inv[p].op = "DEL" /\ inv[p].pc = "GetNamesFromIPs"
    /\ TeardownCalls(inv[p]) = <<"StoreDelete", "DelegateDel", "NetInCleanup">>
    /\ Succeeded(inv[p], "StoreDelete")

\* ---------------------------------------------------------------- C16
\* C16 as stated: the store never holds a record under the empty handle; an
\* Add with the empty handle never returns success, and when the delegate
\* gave it an address and none of its steps failed it returns the
\* invalid-container-ID error.
C16_Original ==
  /\ store[""] = NoRecord
  /\ \A p \in Procs :
       (Done(p, "ADD") /\ inv[p].ContainerID = "") =>
         /\ inv[p].ret # "ok"
         /\ (AllCallsOk(inv[p]) /\ Len(inv[p].result.IPs) > 0)
              => inv[p].ret = "invalid Container ID"

\* ---------------------------------------------------------------- C17
\* C17: the container a Del holds after its store removal, failed or not,
\* carries the IP the store held for the handle when the removal was called;
\* the egress teardown and the masquerade removal are given that IP; so a Del
\* that directly follows a successful Add of the handle and whose store
\* removal fails still removes the exemption of that Add's IP when its
\* masquerade removal succeeds.
C17_DelUsesStoredIP ==
  /\ [][ \A p \in Procs :
           (InDel(p, "StoreDelete") /\ inv'[p] # inv[p]) =>
             inv'[p].container.IP = IF store[inv[p].ContainerID] = NoRecord THEN ""
                                    ELSE store[inv[p].ContainerID] ]_vars
  /\ [](\A p \in Procs :
          inv[p].op = "DEL" =>
            /\ \A i \in CallIdx(inv[p]) :
                 inv[p].calls[i].call \in {"NetOutCleanup", "DelIPMasq"}
                   => inv[p].calls[i].arg = inv[p].container.IP
            /\ (Done(p, "DEL") /\ FollowsCleanAdd(inv[p]) /\ Failed(inv[p], "StoreDelete"))
                 => /\ inv[p].container.IP = inv[p].prev.containerIP
                    /\ store[inv[p].ContainerID] = inv[p].prev.containerIP
                    /\ Succeeded(inv[p], "DelIPMasq") => inv[p].prev.containerIP \notin masq)

\* a Del after a successful Add: the store removal failed, the record is
\* still there, and the exemption of its IP is gone
C17_Witness ==
  \E p \in Procs :
    /\ Done(p, "DEL") /\ FollowsCleanAdd(inv[p]) /\ Failed(inv[p], "StoreDelete")
    /\ inv[p].container.IP = "10.255.0.3"
    /\ store[inv[p].ContainerID] = "10.255.0.3"
    /\ LastCall(inv[p]) = Call("DelIPMasq", TRUE, "10.255.0.3")
    /\ masq = {}

\* ---------------------------------------------------------------- C18
\* C18: a Del in which the store removal failed and no other step failed has,
\* once returned, made the delegate Del, the ingress teardown, the egress
\* teardown and the masquerade removal, and has returned success; until then
\* it has not returned.
C18_StoreFailureDoesNotStopDel ==
  \A p \in Procs :
    LET others == [inv[p] EXCEPT !.calls = SelectSeq(@, LAMBDA c : c.call # "StoreDelete")]
    IN  (inv[p].op = "DEL" /\ Failed(inv[p], "StoreDelete") /\ AllCallsOk(others)) =>
          /\ inv[p].pc = "done" <=> Called(inv[p], "DelIPMasq")
          /\ Done(p, "DEL") =>
               /\ inv[p].ret = "ok"
               /\ \A name \in {"DelegateDel", "NetInCleanup", "NetOutCleanup", "DelIPMasq"} :
                    Succeeded(inv[p], name)

\* such a Del, of a handle whose record is still in the store
C18_Witness ==
  \E p \in Procs :
    /\ Done(p, "DEL") /\ inv[p].ret = "ok"
    /\ Failed(inv[p], "StoreDelete") /\ Len(inv[p].calls) = Len(DelSteps)
    /\ \A i \in CallIdx(inv[p]) : inv[p].calls[i].call # "StoreDelete" => inv[p].calls[i].ok
    /\ store[inv[p].ContainerID] # NoRecord
    /\ ~netin[inv[p].ContainerID].exists

\* ---------------------------------------------------------------- C19
\* the invocations inside an operation on iptables
InsideIPTables == { p \in Procs : inv[p].inIPT }

\* C19: with invocations running concurrently, at most one of them is inside
\* an operation on iptables at a time; an invocation is inside one only at a
\* position whose call works on iptables, having entered through the locked
\* handle, and its next step ends the operation and frees the lock, so the
\* lock is never held from one call to the next; every change of a chain or
\* of the masquerade exemptions is made by the invocation inside; and from
\* some moment on no invocation is left waiting or running: each one that
\* was started has entered the operations it needed and has returned.
C19_IPTablesLock ==
  /\ [](Cardinality(InsideIPTables) <= 1)
  /\ [](\A p \in Procs :
          inv[p].inIPT => NeedsIPTables(inv[p]) /\ ThroughLockedIPTables(inv[p]))
  /\ [][ /\ \A p \in Procs : (inv[p].inIPT /\ inv'[p] # inv[p]) => ~inv'[p].inIPT
         /\ <<netin, netout, masq>>' # <<netin, netout, masq>> =>
              \E p \in InsideIPTables : inv'[p] # inv[p] ]_vars
  /\ <>[](\A p \in Procs : inv[p].pc = "idle")

\* one invocation is inside an operation on iptables while another one, at
\* a call that works on iptables, waits for the lock
C19_Witness ==
  \E p, q \in Procs :
    /\ p # q
    /\ inv[p].inIPT
    /\ NeedsIPTables(inv[q]) /\ ~inv[q].inIPT
    /\ ~ENABLED IPTablesEnter(q)

\* ---------------------------------------------------------------- C20
\* C20 as stated: no step of an Add or Del for a handle A changes or removes
\* the store record, the ingress chain or the egress chain of another handle
\* B (B a container whose record and chains are in place).
C20_Original ==
  [][ \A p \in Procs :
        (inv[p].pc \notin {"idle", "done"} /\ inv'[p] # inv[p]) =>
          \A B \in (DOMAIN store) \ {inv[p].ContainerID} :
            (store[B] # NoRecord /\ netin[ChainOf[B]].exists /\ netout[ChainOf[B]] # "absent") =>
              /\ store'[B] = store[B]
              /\ netin'[ChainOf[B]] = netin[ChainOf[B]]
              /\ netout'[ChainOf[B]] = netout[ChainOf[B]] ]_vars
====
